---- MODULE Spec2Model ----
(***************************************************************************)
(* A model of tfl_data: the snapshot walker (parse.py), the schema, the    *)
(* ingestion writer and the query builder (db.py).                          *)
(*                                                                         *)
(* A table is the sequence of its rows in insertion (rowid) order, so that *)
(* duplicate rows are representable and only the schema's constraints keep *)
(* them out.  The store is seen twice: `store` is what has been committed, *)
(* `txn` is what the writer's open connection sees (committed rows plus    *)
(* the rows of its open transaction).                                      *)
(***************************************************************************)
EXTENDS Integers, Sequences, FiniteSets, TLC

VARIABLES
    fk,             \* whether the engine enforces FOREIGN KEY clauses
    tables,         \* whether metadata.create_all has created the tables
    store,          \* the committed contents of the database
    txn,            \* the contents as seen by the writer's connection
    conn,           \* DatabaseWriter.conn: "closed" (None) or "open"
    lines_cache,    \* DatabaseWriter._lines_cache
    last,           \* the last call made on the writer and how it ended
    tree,           \* the files under <data_dir>/lines (path -> content)
    tmpdirs,        \* the temporary directories of extract_data that exist
    pc,             \* create_database's position
    pos,            \* walk_category: number of files already visited
    pair,           \* the (dt, data) pair walk_category has just yielded
    yielded,        \* every pair walk_category has yielded so far
    count,          \* add_from_data's local `count`
    printed,        \* what create_database printed: <<>> or <<count>>
    answer          \* the last query made on a DatabaseReader and its result

vars == <<fk, tables, store, txn, conn, lines_cache, last,
          tree, tmpdirs, pc, pos, pair, yielded, count, printed, answer>>

dbvars == <<fk, tables, store, txn, conn, lines_cache, last>>
runvars == <<tree, tmpdirs, pc, pos, pair, yielded, count, printed, answer>>

----------------------------------------------------------------------------
(* Bounds of the model *)

MaxLinesPerSnap == 2    \* longest snapshot array handed to add_from_dict
MaxObs == 1             \* most distinct observations the calls may ask for
MaxFiles == 2           \* most files in the data directory

----------------------------------------------------------------------------
(* Inputs *)

ModeNames == {"tube", "dlr"}
LineNames == {"victoria", "central", "dlr"}

\* The (modeName, name) pairs of the line objects.
ModeLinePairs ==
    { <<"tube", "victoria">>, <<"tube", "central">>, <<"dlr", "dlr">> }

\* Entries of a line object's lineStatuses (statusSeverityDescription,
\* statusSeverity); the optional reason and disruption fields are nullable
\* columns that no constraint or query reads, and are left out.
GoodService ==
    [statusSeverityDescription |-> "Good Service", statusSeverity |-> 10]
Suspended ==
    [statusSeverityDescription |-> "Suspended", statusSeverity |-> 2]

StatusEntries == { GoodService, Suspended }

Descriptions == { s.statusSeverityDescription : s \in StatusEntries }

\* The lineStatuses lists of the line objects handed to the writer: no
\* entry, or two entries.
StatusLists == { <<>>, <<GoodService, Suspended>> }

LineObject(p, statuses) ==
    [modeName |-> p[1], name |-> p[2], lineStatuses |-> statuses]

LineObjects == { LineObject(p, s) : p \in ModeLinePairs, s \in StatusLists }

\* The line objects of the snapshot arrays.
SnapshotLines ==
    { LineObject(p, <<GoodService, Suspended>>) : p \in ModeLinePairs }

RECURSIVE SeqsUpTo(_, _)
SeqsUpTo(S, n) ==
    IF n = 0 THEN { <<>> }
    ELSE LET shorter == SeqsUpTo(S, n - 1)
         IN  shorter \cup { Append(s, x) : s \in shorter, x \in S }

Snapshots == SeqsUpTo(SnapshotLines, MaxLinesPerSnap)

\* datetime(year, month, day, hour, minute)
Datetime(y, mo, d, h, mi) ==
    [year |-> y, month |-> mo, day |-> d, hour |-> h, minute |-> mi]

DtKey(dt) == <<dt.year, dt.month, dt.day, dt.hour, dt.minute>>

RECURSIVE TupleLess(_, _)
TupleLess(a, b) ==
    IF a = <<>> \/ b = <<>> THEN FALSE
    ELSE \/ Head(a) < Head(b)
         \/ Head(a) = Head(b) /\ TupleLess(Tail(a), Tail(b))

DtLess(a, b) == TupleLess(DtKey(a), DtKey(b))
DtLeq(a, b) == a = b \/ DtLess(a, b)

\* The timestamps handed to the writer's methods directly.
Timestamps == { Datetime(2023, 1, 4, 23, 0), Datetime(2023, 1, 5, 7, 30) }

----------------------------------------------------------------------------
(* The schema and the storage layer's INSERT *)

EmptyDb ==
    [mode |-> <<>>, line |-> <<>>, status |-> <<>>,
     line_observation |-> <<>>, line_status |-> <<>>]

Rows(t) == { t[i] : i \in 1..Len(t) }

\* Number of rows of table t that are equal to the row r.
CountRows(t, r) == Cardinality({ i \in 1..Len(t) : t[i] = r })

\* An INTEGER PRIMARY KEY column of SQLite: one more than the largest rowid.
NextId(t) ==
    IF t = <<>> THEN 1
    ELSE 1 + (CHOOSE n \in { r.id : r \in Rows(t) } :
                 \A r \in Rows(t) : r.id <= n)

Ok(db, pk) == [err |-> "none", db |-> db, pk |-> pk]
Failed(e, db) == [err |-> e, db |-> db, pk |-> 0]

\* mode_table: name is the primary key.
ModeUnique(db, name) == \A r \in Rows(db.mode) : r.name # name

InsertMode(db, name) ==
    IF ~tables THEN Failed("OperationalError", db)
    ELSE IF ~ModeUnique(db, name) THEN Failed("IntegrityError", db)
    ELSE Ok([db EXCEPT !.mode = Append(@, [name |-> name])], 0)

\* line_table: mode references mode.name; UNIQUE (mode, line).
LineUnique(db, mode, line) ==
    \A r \in Rows(db.line) : ~(r.mode = mode /\ r.line = line)

ModeFk(db, mode) == fk => \E r \in Rows(db.mode) : r.name = mode

InsertLine(db, mode, line) ==
    IF ~tables THEN Failed("OperationalError", db)
    ELSE IF ~LineUnique(db, mode, line) \/ ~ModeFk(db, mode)
         THEN Failed("IntegrityError", db)
    ELSE Ok([db EXCEPT !.line = Append(@, [mode |-> mode, line |-> line])], 0)

\* line_observation_table: autoincrement id; mode references mode.name;
\* UNIQUE (timestamp, mode, line).
ObservationUnique(db, timestamp, mode, line) ==
    \A r \in Rows(db.line_observation) :
        ~(r.timestamp = timestamp /\ r.mode = mode /\ r.line = line)

\* Variant: the table without its UNIQUE (timestamp, mode, line) constraint
InsertLineObservationNoUnique(db, timestamp, mode, line) ==
    IF ~tables THEN Failed("OperationalError", db)
    ELSE IF ~ModeFk(db, mode) THEN Failed("IntegrityError", db)
    ELSE LET pk == NextId(db.line_observation)
         IN  Ok([db EXCEPT !.line_observation =
                    Append(@, [id |-> pk, timestamp |-> timestamp,
                               mode |-> mode, line |-> line])], pk)

InsertLineObservation(db, timestamp, mode, line) ==
    IF ~tables THEN Failed("OperationalError", db)
    ELSE IF ~ObservationUnique(db, timestamp, mode, line) \/ ~ModeFk(db, mode)
         THEN Failed("IntegrityError", db)
    ELSE LET pk == NextId(db.line_observation)
         IN  Ok([db EXCEPT !.line_observation =
                    Append(@, [id |-> pk, timestamp |-> timestamp,
                               mode |-> mode, line |-> line])], pk)

\* line_status_table: autoincrement id; parent references
\* line_observation.id; description references status.description.
ParentFk(db, parent) ==
    fk => \E r \in Rows(db.line_observation) : r.id = parent

DescriptionFk(db, description) ==
    fk => \E r \in Rows(db.status) : r.description = description

InsertLineStatus(db, parent, description, severity) ==
    IF ~tables THEN Failed("OperationalError", db)
    ELSE IF ~ParentFk(db, parent) \/ ~DescriptionFk(db, description)
         THEN Failed("IntegrityError", db)
    ELSE LET pk == NextId(db.line_status)
         IN  Ok([db EXCEPT !.line_status =
                    Append(@, [id |-> pk, parent |-> parent,
                               description |-> description,
                               severity |-> severity])], pk)

----------------------------------------------------------------------------
(* DatabaseWriter *)

\* `mode in self._lines_cache`: the cache never holds an empty set, so a
\* mode is a key exactly when its set of lines is not empty.
ModeCached(cache, mode) == cache[mode] # {}

LineCached(cache, mode, line) == line \in cache[mode]

EmptyCache == [m \in ModeNames |-> {}]

\* The result of a writer method: the error it raised ("none" when it
\* returned), the connection's view and the cache it leaves, and its
\* return value.
Returned(db, cache, n) == [err |-> "none", db |-> db, cache |-> cache, ret |-> n]
Raised(e, db, cache) == [err |-> e, db |-> db, cache |-> cache, ret |-> 0]

\* Variant: add_mode_line that does not consult the cache
add_mode_line_NoCache(db, cache, mode, line) ==
    LET r1 == InsertMode(db, mode)
        r2 == InsertLine(r1.db, mode, line)
    IN  IF r1.err # "none" THEN Raised(r1.err, r1.db, cache)
        ELSE IF r2.err # "none" THEN Raised(r2.err, r2.db, cache)
        ELSE Returned(r2.db, [cache EXCEPT ![mode] = @ \cup {line}], 0)

add_mode_line(db, cache, mode, line) ==
    IF ~ModeCached(cache, mode) THEN
        LET r1 == InsertMode(db, mode)
            r2 == InsertLine(r1.db, mode, line)
        IN  IF r1.err # "none" THEN Raised(r1.err, r1.db, cache)
            ELSE IF r2.err # "none" THEN Raised(r2.err, r2.db, cache)
            ELSE Returned(r2.db, [cache EXCEPT ![mode] = {line}], 0)
    ELSE IF ~LineCached(cache, mode, line) THEN
        LET r == InsertLine(db, mode, line)
        IN  IF r.err # "none" THEN Raised(r.err, r.db, cache)
            ELSE Returned(r.db, [cache EXCEPT ![mode] = @ \cup {line}], 0)
    ELSE Returned(db, cache, 0)

\* status.get(key) is None for a key the dict lacks; description and
\* severity are NOT NULL columns, so the INSERT of a None raises.
add_line_status(db, cache, parent_id, status) ==
    IF ~({"statusSeverityDescription", "statusSeverity"}
            \subseteq DOMAIN status)
    THEN Raised(IF tables THEN "IntegrityError" ELSE "OperationalError",
                db, cache)
    ELSE LET r == InsertLineStatus(db, parent_id,
                                   status.statusSeverityDescription,
                                   status.statusSeverity)
         IN  IF r.err # "none" THEN Raised(r.err, r.db, cache)
             ELSE Returned(r.db, cache, 0)

\* The loop `for s in line["lineStatuses"]` from its i-th entry, with n rows
\* counted so far; an insert that raises ends the loop.
RECURSIVE StatusLoop(_, _, _, _, _, _)
StatusLoop(db, cache, pk, statuses, i, n) ==
    IF i > Len(statuses) THEN Returned(db, cache, n)
    ELSE LET r == add_line_status(db, cache, pk, statuses[i])
         IN  IF r.err # "none" THEN r
             ELSE StatusLoop(r.db, cache, pk, statuses, i + 1, n + 1)

\* Variant: add_line_observation that returns 1, the observation row
add_line_observation_CountsObservation(db, cache, timestamp, line) ==
    LET r1 == add_mode_line(db, cache, line.modeName, line.name)
        r2 == InsertLineObservation(r1.db, timestamp, line.modeName, line.name)
        r3 == StatusLoop(r2.db, r1.cache, r2.pk, line.lineStatuses, 1, 0)
    IN  IF r1.err # "none" THEN r1
        ELSE IF r2.err # "none" THEN Raised(r2.err, r2.db, r1.cache)
        ELSE IF r3.err # "none" THEN r3
        ELSE Returned(r3.db, r3.cache, 1)

add_line_observation(db, cache, timestamp, line) ==
    LET mode_name == line.modeName
        line_name == line.name
        r1 == add_mode_line(db, cache, mode_name, line_name)
        r2 == InsertLineObservation(r1.db, timestamp, mode_name, line_name)
    IN  IF r1.err # "none" THEN r1
        ELSE IF r2.err # "none" THEN Raised(r2.err, r2.db, r1.cache)
        ELSE StatusLoop(r2.db, r1.cache, r2.pk, line.lineStatuses, 1, 0)

\* The loop `for line in data` from its i-th line object.
RECURSIVE DictLoop(_, _, _, _, _, _)
DictLoop(db, cache, dt, data, i, n) ==
    IF i > Len(data) THEN Returned(db, cache, n)
    ELSE LET r == add_line_observation(db, cache, dt, data[i])
         IN  IF r.err # "none" THEN r
             ELSE DictLoop(r.db, r.cache, dt, data, i + 1, n + r.ret)

add_from_dict(db, cache, dt, data) == DictLoop(db, cache, dt, data, 1, 0)

----------------------------------------------------------------------------
(* DataParser: names are strings, written as sequences of characters *)

\* The characters of the names, in increasing code point order; sorted()
\* compares strings by code point.
Alphabet ==
    << "-", ".", "0", "1", "2", "3", "4", "5", "6", "7", "8", "9", "_",
       "a", "g", "j", "n", "o", "r", "s", "t", "z" >>

Ord(c) == CHOOSE i \in 1..Len(Alphabet) : Alphabet[i] = c

RECURSIVE StrLess(_, _)
StrLess(a, b) ==
    IF a = <<>> THEN b # <<>>
    ELSE IF b = <<>> THEN FALSE
    ELSE \/ Ord(Head(a)) < Ord(Head(b))
         \/ Head(a) = Head(b) /\ StrLess(Tail(a), Tail(b))

\* sorted(names)
RECURSIVE Sorted(_)
Sorted(names) ==
    IF names = {} THEN <<>>
    ELSE LET least == CHOOSE x \in names :
                          \A y \in names : x = y \/ StrLess(x, y)
         IN  <<least>> \o Sorted(names \ {least})

\* int(s) of a string of digits
RECURSIVE ParseInt(_)
ParseInt(s) ==
    IF s = <<>> THEN 0
    ELSE 10 * ParseInt(SubSeq(s, 1, Len(s) - 1)) + (Ord(s[Len(s)]) - Ord("0"))

\* s[a:b]
Slice(s, a, b) == SubSeq(s, a + 1, b)

\* s.rstrip(chars): drops the trailing characters that are in chars.
RECURSIVE RStrip(_, _)
RStrip(s, chars) ==
    IF s # <<>> /\ s[Len(s)] \in chars
    THEN RStrip(SubSeq(s, 1, Len(s) - 1), chars)
    ELSE s

TarGzChars == { ".", "t", "a", "r", "g", "z" }

\* A directory tree is a function from the paths <<year, month, day, fname>>
\* of its files to their contents.  os.listdir of the directory at `prefix`.
OsListdir(t, prefix) ==
    { f[Len(prefix) + 1] : f \in { g \in DOMAIN t :
                                     SubSeq(g, 1, Len(prefix)) = prefix } }

\* The names in decreasing order, an order os.listdir may return them in.
RECURSIVE Reversed(_)
Reversed(q) == IF q = <<>> THEN <<>> ELSE Append(Reversed(Tail(q)), Head(q))

\* Variant: listdir without sorted()
listdir_Unsorted(t, prefix) == Reversed(Sorted(OsListdir(t, prefix)))

listdir(t, prefix) == Sorted(OsListdir(t, prefix))

\* The nested loops of walk_category: the paths of the files in the order
\* they are visited.
RECURSIVE WalkFrom(_, _), WalkEach(_, _, _)
WalkEach(t, prefix, names) ==
    IF names = <<>> THEN <<>>
    ELSE WalkFrom(t, Append(prefix, Head(names)))
             \o WalkEach(t, prefix, Tail(names))

WalkFrom(t, prefix) ==
    IF Len(prefix) = Len(<<"year", "month", "day", "fname">>) THEN <<prefix>>
    ELSE WalkEach(t, prefix, listdir(t, prefix))

WalkOrder(t) == WalkFrom(t, <<>>)

\* dt = datetime(int(year), int(month), int(day), int(hour), int(minute))
FileDatetime(f) ==
    LET fname == f[4]
        hour == Slice(fname, 11, 13)
        minute == Slice(fname, 14, 16)
    IN  Datetime(ParseInt(f[1]), ParseInt(f[2]), ParseInt(f[3]),
                 ParseInt(hour), ParseInt(minute))

\* The content of a file: an archive that tarfile cannot open, or an
\* archive with one member, whose body is zero-length ("empty"), not JSON
\* ("badjson") or a JSON array ("json").
Unreadable == [readable |-> FALSE, member |-> <<>>, kind |-> "none", data |-> <<>>]
Archive(member, kind, data) ==
    [readable |-> TRUE, member |-> member, kind |-> kind, data |-> data]

\* What extract_data returns (none: it returned None) or raises.
Extracted(none, data) == [err |-> "none", none |-> none, data |-> data]
ExtractFailed(e) == [err |-> e, none |-> FALSE, data |-> <<>>]

\* Variant: extract_data without the test of the extracted file's size
extract_data_NoSizeTest(fname, content) ==
    LET json_fname == RStrip(fname, TarGzChars)
    IN  IF ~content.readable THEN ExtractFailed("ReadError")
        ELSE IF content.member # json_fname
             THEN ExtractFailed("FileNotFoundError")
        ELSE IF content.kind \in {"empty", "badjson"}
             THEN ExtractFailed("JSONDecodeError")
        ELSE Extracted(FALSE, content.data)

extract_data(fname, content) ==
    LET json_fname == RStrip(fname, TarGzChars)
    IN  IF ~content.readable THEN ExtractFailed("ReadError")
        ELSE IF content.member # json_fname
             THEN ExtractFailed("FileNotFoundError")
        ELSE IF content.kind = "empty" THEN Extracted(TRUE, <<>>)
        ELSE IF content.kind = "badjson" THEN ExtractFailed("JSONDecodeError")
        ELSE Extracted(FALSE, content.data)

\* A (dt, data) pair yielded by walk_category.
Pair(dt, x) == [dt |-> dt, none |-> x.none, data |-> x.data]

NoPair == [dt |-> Datetime(0, 0, 0, 0, 0), none |-> TRUE, data |-> <<>>]

----------------------------------------------------------------------------
(* The data directories *)

Years == { <<"2", "0", "2", "2">>, <<"2", "0", "2", "3">> }
Months == { <<"0", "1">>, <<"1", "2">> }
Days == { <<"0", "4">>, <<"0", "5">> }
Times == { << <<"0", "7">>, <<"3", "0">> >>, << <<"0", "8">>, <<"0", "0">> >>,
           << <<"2", "3">>, <<"0", "0">> >> }

JsonTarGz == << ".", "j", "s", "o", "n", ".", "t", "a", "r", ".", "g", "z" >>
TarGz == << ".", "t", "a", "r", ".", "g", "z" >>

\* <YYYY>-<MM>-<DD>_<hh>-<mm>.json.tar.gz
FileName(y, mo, d, time) ==
    y \o <<"-">> \o mo \o <<"-">> \o d \o <<"_">> \o time[1] \o <<"-">>
      \o time[2] \o JsonTarGz

FilePath(y, mo, d, time) == <<y, mo, d, FileName(y, mo, d, time)>>

\* The archive at a path wraps the JSON file named like it.
ArchiveAt(f, kind, data) ==
    Archive(SubSeq(f[4], 1, Len(f[4]) - Len(TarGz)), kind, data)

EmptyTree == [f \in {} |-> Unreadable]

RECURSIVE SubsetsUpTo(_, _)
SubsetsUpTo(S, n) ==
    IF n = 0 THEN { {} }
    ELSE LET smaller == SubsetsUpTo(S, n - 1)
         IN  smaller \cup { A \cup {x} : A \in smaller, x \in S }

\* The contents a file at f may have: an archive that cannot be opened,
\* or one that wraps one of the given bodies.
ContentsAt(f, bodies) ==
    { Unreadable } \cup { ArchiveAt(f, b.kind, b.data) : b \in bodies }

\* The trees whose files are at the paths P.
RECURSIVE TreesAt(_, _)
TreesAt(P, bodies) ==
    IF P = {} THEN { EmptyTree }
    ELSE LET f == CHOOSE g \in P : TRUE
         IN  { (f :> c) @@ t : c \in ContentsAt(f, bodies),
                               t \in TreesAt(P \ {f}, bodies) }

\* The trees of at most MaxFiles files at the given paths.
Trees(paths, bodies) ==
    UNION { TreesAt(P, bodies) : P \in SubsetsUpTo(paths, MaxFiles) }

Body(kind, data) == [kind |-> kind, data |-> data]

\* The walked trees: every readable archive wraps an empty JSON array.
WalkBodies == { Body("json", <<>>) }

WalkPaths ==
    { FilePath(y, mo, d, time) :
        y \in Years, mo \in Months, d \in Days, time \in Times }

\* 2023-01-04T23:00, 2023-01-05T07:30 and 2023-01-05T08:00
IngestPaths ==
    { FilePath(<<"2", "0", "2", "3">>, <<"0", "1">>, <<"0", "4">>,
               << <<"2", "3">>, <<"0", "0">> >>),
      FilePath(<<"2", "0", "2", "3">>, <<"0", "1">>, <<"0", "5">>,
               << <<"0", "7">>, <<"3", "0">> >>),
      FilePath(<<"2", "0", "2", "3">>, <<"0", "1">>, <<"0", "5">>,
               << <<"0", "8">>, <<"0", "0">> >>) }

Victoria == LineObject(<<"tube", "victoria">>, <<GoodService, Suspended>>)
Central == LineObject(<<"tube", "central">>, <<GoodService, Suspended>>)
Dlr == LineObject(<<"dlr", "dlr">>, <<GoodService, Suspended>>)

\* The snapshot arrays of the ingested files: one line, a line listed
\* twice before another, two lines.
IngestPayloads == { <<Victoria>>, <<Victoria, Victoria, Central>>,
                    <<Central, Dlr>> }

IngestBodies ==
    { Body("empty", <<>>), Body("badjson", <<>>) }
        \cup { Body("json", d) : d \in IngestPayloads }

----------------------------------------------------------------------------
(* The record of the last call made on the writer *)

\* The last query: the method, the date_range it was given, the rows or
\* the count it returned.
NoAnswer == [op |-> "none", date_range |-> <<>>, rows |-> {}, count |-> 0]

\* op: the method; err: what it raised; ret: what it returned; held: the
\* call asked for a (timestamp, mode, line) triple that the connection's
\* view of line_observation held when the call was made.
NoCall == [op |-> "none", err |-> "none", ret |-> 0, held |-> FALSE]

Call(op, r) == [op |-> op, err |-> r.err, ret |-> r.ret, held |-> FALSE]

\* `if commit: self.conn.commit()` at the end of a method: reached only
\* when nothing raised before it.
AfterCommit(commit, r) == IF commit /\ r.err = "none" THEN r.db ELSE store

\* The (timestamp, mode, line) triples of the observation rows of db.
Triples(db) ==
    { <<r.timestamp, r.mode, r.line>> : r \in Rows(db.line_observation) }

\* The triples a snapshot array asks for.
Asked(dt, data) ==
    { <<dt, data[i].modeName, data[i].name>> : i \in 1..Len(data) }

\* The calls are made while the observations asked for so far are at most
\* MaxObs.
Room(dt, data) == Cardinality(Triples(txn) \cup Asked(dt, data)) <= MaxObs

\* The record of a call that writes the observations of data at dt.
CallOn(op, r, dt, data) ==
    [Call(op, r) EXCEPT !.held = (Asked(dt, data) \cap Triples(txn) # {})]

----------------------------------------------------------------------------
(* The writer's operations, called on an entered writer *)

\* _DatabaseManager.__enter__
Enter ==
    /\ conn = "closed"
    /\ pc = "idle"
    /\ conn' = "open"
    /\ txn' = store
    /\ UNCHANGED <<fk, tables, store, lines_cache, last, runvars>>

\* _DatabaseManager.__exit__: closing the connection rolls back what was
\* not committed.
Exit ==
    /\ conn = "open"
    /\ pc = "idle"
    /\ conn' = "closed"
    /\ txn' = store
    /\ UNCHANGED <<fk, tables, store, lines_cache, last, runvars>>

\* DatabaseWriter.__init__: another writer on the same engine.
NewWriter ==
    /\ conn = "closed"
    /\ pc = "idle"
    /\ lines_cache # EmptyCache
    /\ lines_cache' = EmptyCache
    /\ UNCHANGED <<fk, tables, store, txn, conn, last, runvars>>

\* DatabaseWriter.create_tables
CreateTables ==
    /\ conn = "open"
    /\ pc = "idle"
    /\ ~tables
    /\ tables' = TRUE
    /\ UNCHANGED <<fk, store, txn, conn, lines_cache, last, runvars>>

AddModeLine(mode, line) ==
    /\ conn = "open"
    /\ pc = "idle"
    /\ LET r == add_mode_line(txn, lines_cache, mode, line)
       IN  /\ txn' = r.db
           /\ lines_cache' = r.cache
           /\ last' = Call("add_mode_line", r)
    /\ UNCHANGED <<fk, tables, store, conn, runvars>>

AddLineObservation(timestamp, line, commit) ==
    /\ conn = "open"
    /\ pc = "idle"
    /\ Room(timestamp, <<line>>)
    /\ LET r == add_line_observation(txn, lines_cache, timestamp, line)
       IN  /\ txn' = r.db
           /\ lines_cache' = r.cache
           /\ store' = AfterCommit(commit, r)
           /\ last' = CallOn("add_line_observation", r, timestamp, <<line>>)
    /\ UNCHANGED <<fk, tables, conn, runvars>>

AddFromDict(dt, data, commit) ==
    /\ conn = "open"
    /\ pc = "idle"
    /\ Room(dt, data)
    /\ LET r == add_from_dict(txn, lines_cache, dt, data)
       IN  /\ txn' = r.db
           /\ lines_cache' = r.cache
           /\ store' = AfterCommit(commit, r)
           /\ last' = CallOn("add_from_dict", r, dt, data)
    /\ UNCHANGED <<fk, tables, conn, runvars>>

----------------------------------------------------------------------------
(* The writer driven through its methods *)

Init ==
    /\ fk \in BOOLEAN
    /\ tables = FALSE
    /\ store = EmptyDb
    /\ txn = EmptyDb
    /\ conn = "closed"
    /\ lines_cache = EmptyCache
    /\ last = NoCall
    /\ tree = EmptyTree
    /\ tmpdirs = {}
    /\ pc = "idle"
    /\ pos = 0
    /\ pair = NoPair
    /\ yielded = <<>>
    /\ count = 0
    /\ printed = <<>>
    /\ answer = NoAnswer

Next ==
    \/ Enter
    \/ Exit
    \/ NewWriter
    \/ CreateTables
    \/ \E t \in Timestamps, l \in LineObjects, c \in BOOLEAN :
          AddLineObservation(t, l, c)
    \/ \E t \in Timestamps, d \in Snapshots, c \in BOOLEAN :
          AddFromDict(t, d, c)

Spec == Init /\ [][Next]_vars

----------------------------------------------------------------------------
(* The reference data: add_mode_line called directly.  add_from_dict with *)
(* an empty array and commit=True commits what the transaction holds.      *)

NextRef ==
    \/ Enter
    \/ Exit
    \/ NewWriter
    \/ CreateTables
    \/ \E p \in ModeLinePairs : AddModeLine(p[1], p[2])
    \/ \E t \in Timestamps : AddFromDict(t, <<>>, TRUE)

SpecRef == Init /\ [][NextRef]_vars

----------------------------------------------------------------------------
(* walk_category as a generator, and a loop that consumes it *)

\* The generator is resumed: it visits the next file and yields its pair,
\* or an exception of extract_data leaves it, or the loops are exhausted.
WalkNext ==
    /\ pc = "walk"
    /\ LET order == WalkOrder(tree)
       IN  IF pos = Len(order)
           THEN /\ pc' = "stop"
                /\ UNCHANGED <<pos, pair, yielded, last>>
           ELSE LET f == order[pos + 1]
                    x == extract_data(f[4], tree[f])
                IN  /\ pos' = pos + 1
                    /\ IF x.err # "none"
                       THEN /\ pc' = "error"
                            /\ last' = [NoCall EXCEPT !.op = "extract_data",
                                                       !.err = x.err]
                            /\ UNCHANGED <<pair, yielded>>
                       ELSE /\ pc' = "body"
                            /\ pair' = Pair(FileDatetime(f), x)
                            /\ yielded' = Append(yielded, pair')
                            /\ UNCHANGED last
    /\ UNCHANGED <<fk, tables, store, txn, conn, lines_cache,
                   tree, tmpdirs, count, printed, answer>>

\* for dt, d in parser.walk_category(category): pass
LoopBody ==
    /\ pc = "body"
    /\ pc' = "walk"
    /\ UNCHANGED <<dbvars, tree, tmpdirs, pos, pair, yielded, count, printed, answer>>

InitWalk ==
    /\ fk = FALSE
    /\ tables = FALSE
    /\ store = EmptyDb
    /\ txn = EmptyDb
    /\ conn = "closed"
    /\ lines_cache = EmptyCache
    /\ last = NoCall
    /\ tree \in Trees(WalkPaths, WalkBodies)
    /\ tmpdirs = {}
    /\ pc = "walk"
    /\ pos = 0
    /\ pair = NoPair
    /\ yielded = <<>>
    /\ count = 0
    /\ printed = <<>>
    /\ answer = NoAnswer

NextWalk == WalkNext \/ LoopBody

SpecWalk == InitWalk /\ [][NextWalk]_vars

----------------------------------------------------------------------------
(* create_database: one run of the ingestion over a data directory *)

\* engine = create_engine("sqlite:///..."); dw = DatabaseWriter(engine);
\* count = 0; with dw: (__enter__)
RunStart ==
    /\ pc = "start"
    /\ lines_cache' = EmptyCache
    /\ count' = 0
    /\ conn' = "open"
    /\ txn' = store
    /\ pc' = "create_tables"
    /\ UNCHANGED <<fk, tables, store, last, tree, tmpdirs, pos, pair, yielded,
                   printed, answer>>

\* dw.create_tables(), then add_from_data starts its walk
RunCreateTables ==
    /\ pc = "create_tables"
    /\ tables' = TRUE
    /\ pc' = "walk"
    /\ UNCHANGED <<fk, store, txn, conn, lines_cache, last, tree, tmpdirs, pos, pair,
                   yielded, count, printed, answer>>

\* Variant: a loop body that asks for the next pair before it has written
\* this one
AddFromDataBody_Deferred ==
    /\ pc = "body"
    /\ pc' = "walk"
    /\ UNCHANGED <<dbvars, tree, tmpdirs, pos, pair, yielded, count, printed, answer>>

\* The body of add_from_data's loop for the pair just yielded.
AddFromDataBody ==
    /\ pc = "body"
    /\ IF pair.none
       THEN /\ pc' = "walk"
            /\ UNCHANGED <<txn, lines_cache, last, count>>
       ELSE LET r == add_from_dict(txn, lines_cache, pair.dt, pair.data)
            IN  /\ txn' = r.db
                /\ lines_cache' = r.cache
                /\ last' = CallOn("add_from_dict", r, pair.dt, pair.data)
                /\ IF r.err # "none"
                   THEN pc' = "error" /\ UNCHANGED count
                   ELSE pc' = "walk" /\ count' = count + r.ret
    /\ UNCHANGED <<fk, tables, store, conn, tree, tmpdirs, pos, pair, yielded,
                   printed, answer>>

\* The walk is exhausted: `if commit: self.conn.commit()`, `return count`.
AddFromDataCommit ==
    /\ pc = "stop"
    /\ store' = txn
    /\ pc' = "exit"
    /\ UNCHANGED <<fk, tables, txn, conn, lines_cache, last, tree, tmpdirs, pos, pair,
                   yielded, count, printed, answer>>

\* __exit__, reached by the end of the with block or by an exception that
\* leaves it; the exception then leaves create_database.
RunExit ==
    /\ pc \in {"exit", "error"}
    /\ conn' = "closed"
    /\ txn' = store
    /\ pc' = IF pc = "exit" THEN "print" ELSE "failed"
    /\ UNCHANGED <<fk, tables, store, lines_cache, last, tree, tmpdirs, pos, pair,
                   yielded, count, printed, answer>>

\* print(f"Added {count} line statuses.")
RunPrint ==
    /\ pc = "print"
    /\ printed' = <<count>>
    /\ pc' = "done"
    /\ UNCHANGED <<dbvars, tree, tmpdirs, pos, pair, yielded, count, answer>>

\* create_database is run again on the same directory and database file.
RunAgain ==
    /\ pc \in {"done", "failed"}
    /\ pc' = "start"
    /\ pos' = 0
    /\ pair' = NoPair
    /\ yielded' = <<>>
    /\ count' = 0
    /\ printed' = <<>>
    /\ last' = NoCall
    /\ UNCHANGED <<fk, tables, store, txn, conn, lines_cache, tree, tmpdirs, answer>>

InitIngest ==
    /\ fk = FALSE
    /\ tables = FALSE
    /\ store = EmptyDb
    /\ txn = EmptyDb
    /\ conn = "closed"
    /\ lines_cache = EmptyCache
    /\ last = NoCall
    /\ tree \in Trees(IngestPaths, IngestBodies)
    /\ tmpdirs = {}
    /\ pc = "start"
    /\ pos = 0
    /\ pair = NoPair
    /\ yielded = <<>>
    /\ count = 0
    /\ printed = <<>>
    /\ answer = NoAnswer

NextIngest ==
    \/ RunStart
    \/ RunCreateTables
    \/ WalkNext
    \/ AddFromDataBody
    \/ AddFromDataCommit
    \/ RunExit
    \/ RunPrint
    \/ RunAgain

SpecIngest == InitIngest /\ [][NextIngest]_vars

----------------------------------------------------------------------------
(* DatabaseReader: the queries, made on a connection of their own, which  *)
(* sees what is committed.  An optional argument is <<>> (None) or <<x>>. *)

\* DateRange.__contains__
InDateRange(r, item) == DtLeq(r.start, item) /\ DtLess(item, r.end)

\* Variant: the query with timestamp <= date_range.end
query_observations_EndInclusive(db, date_range, modes, lines, statuses) ==
    { ij \in (1..Len(db.line_observation)) \X (1..Len(db.line_status)) :
        LET o == db.line_observation[ij[1]]
            s == db.line_status[ij[2]]
        IN  /\ o.id = s.parent
            /\ date_range # <<>> =>
                  /\ DtLeq(date_range[1].start, o.timestamp)
                  /\ DtLeq(o.timestamp, date_range[1].end)
            /\ modes # <<>> => o.mode \in modes[1]
            /\ lines # <<>> => o.line \in lines[1]
            /\ statuses # <<>> => s.description \in statuses[1] }

\* FROM line_observation JOIN line_status ON line_observation.id =
\* line_status.parent, and the WHERE clauses of the filters given: the
\* joined rows, each the pair of the positions of its two rows.
query_observations(db, date_range, modes, lines, statuses) ==
    { ij \in (1..Len(db.line_observation)) \X (1..Len(db.line_status)) :
        LET o == db.line_observation[ij[1]]
            s == db.line_status[ij[2]]
        IN  /\ o.id = s.parent
            /\ date_range # <<>> =>
                  /\ DtLeq(date_range[1].start, o.timestamp)
                  /\ DtLess(o.timestamp, date_range[1].end)
            /\ modes # <<>> => o.mode \in modes[1]
            /\ lines # <<>> => o.line \in lines[1]
            /\ statuses # <<>> => s.description \in statuses[1] }

\* SELECT *: the columns of line_observation, then those of line_status.
JoinedRow(o, s) ==
    [id |-> o.id, timestamp |-> o.timestamp, mode |-> o.mode,
     line |-> o.line, id_1 |-> s.id, parent |-> s.parent,
     description |-> s.description, severity |-> s.severity]

\* SELECT DISTINCT * ...: the different joined rows.
get_observations(db, date_range, modes, lines, statuses) ==
    { JoinedRow(db.line_observation[ij[1]], db.line_status[ij[2]]) :
        ij \in query_observations(db, date_range, modes, lines, statuses) }

\* Variant: the count of the observations that have a joined row
count_observations_PerObservation(db, date_range, modes, lines, statuses) ==
    Cardinality({ ij[1] : ij \in query_observations(db, date_range, modes,
                                                      lines, statuses) })

\* SELECT DISTINCT count(*) ...: the number of joined rows.
count_observations(db, date_range, modes, lines, statuses) ==
    Cardinality(query_observations(db, date_range, modes, lines, statuses))

GetObservations(date_range, modes, lines, statuses) ==
    /\ pc = "idle"
    /\ tables
    /\ answer' = [op |-> "get_observations", date_range |-> date_range,
                  rows |-> get_observations(store, date_range, modes, lines,
                                            statuses),
                  count |-> 0]
    /\ UNCHANGED <<dbvars, tree, tmpdirs, pc, pos, pair, yielded, count, printed>>

CountObservations(date_range, modes, lines, statuses) ==
    /\ pc = "idle"
    /\ tables
    /\ answer' = [op |-> "count_observations", date_range |-> date_range,
                  rows |-> {},
                  count |-> count_observations(store, date_range, modes,
                                               lines, statuses)]
    /\ UNCHANGED <<dbvars, tree, tmpdirs, pc, pos, pair, yielded, count, printed>>

\* The line objects written before the queries: no status, one, two with
\* one description, two with different descriptions.
QueryStatusLists ==
    { <<>>, <<GoodService>>, <<Suspended, Suspended>>,
      <<GoodService, Suspended>> }

QueryLineObjects ==
    { LineObject(p, s) : p \in ModeLinePairs, s \in QueryStatusLists }

\* The filters of the queries.
DateRange(start, end) == [start |-> start, end |-> end]

DateRanges ==
    { <<>>,
      << DateRange(Datetime(2023, 1, 1, 0, 0), Datetime(2024, 1, 1, 0, 0)) >>,
      << DateRange(Datetime(2023, 1, 4, 23, 0), Datetime(2023, 1, 5, 7, 30)) >> }
ModeFilters == { <<>>, << {"tube"} >> }
LineFilters == { <<>>, << {"victoria", "dlr"} >> }
StatusFilters ==
    { <<>>, << {"Suspended"} >>, << {"Good Service"} >>,
      << {"Suspended", "Good Service"} >> }

\* The filters of a query, <<date_range, modes, lines, statuses>>: none,
\* each one alone, and all four together.
Filters ==
    { <<r, <<>>, <<>>, <<>>>> : r \in DateRanges }
        \cup { <<<<>>, m, <<>>, <<>>>> : m \in ModeFilters }
        \cup { <<<<>>, <<>>, l, <<>>>> : l \in LineFilters }
        \cup { <<<<>>, <<>>, <<>>, s>> : s \in StatusFilters }
        \cup { <<r, << {"tube"} >>, << {"victoria", "dlr"} >>,
                 << {"Suspended"} >> >> : r \in DateRanges \ { <<>> } }

InitQuery == Init /\ fk = FALSE

NextQuery ==
    \/ Enter
    \/ CreateTables
    \/ \E t \in Timestamps, l \in QueryLineObjects, c \in BOOLEAN :
          AddLineObservation(t, l, c)
    \/ \E f \in Filters : GetObservations(f[1], f[2], f[3], f[4])
    \/ \E f \in Filters : CountObservations(f[1], f[2], f[3], f[4])

SpecQuery == InitQuery /\ [][NextQuery]_vars

----------------------------------------------------------------------------
(* A caller that hands one snapshot array to add_from_dict on an empty     *)
(* store, keeps the array, and reads the store back.                       *)

\* The status descriptions observed in the data (STATUSES).
STATUSES ==
    { "Good Service", "Minor Delays", "Severe Delays", "Special Service",
      "Reduced Service", "No Service", "Suspended", "Part Suspended",
      "Service Closed", "Planned Closure", "Part Closure", "Bus Service" }

\* A status entry without its statusSeverity key.
NoSeverity == [statusSeverityDescription |-> "Good Service"]

\* A status whose description is not one of STATUSES.
Strike == [statusSeverityDescription |-> "Strike", statusSeverity |-> 1]

\* The line objects of the arrays: a line with no status, with two
\* different ones, with one description twice, with a description that is
\* not one of STATUSES, with a second status that lacks its severity; and
\* a line of another mode.
ArrayLineObjects ==
    { LineObject(<<"tube", "victoria">>, s) :
          s \in { <<>>, <<GoodService, Suspended>>, <<Suspended, Suspended>>,
                  <<Strike>>, <<GoodService, NoSeverity>> } }
        \cup { LineObject(<<"dlr", "dlr">>, <<GoodService>>) }

Arrays == SeqsUpTo(ArrayLineObjects, MaxLinesPerSnap)

\* add_from_dict(dt, data, commit) on a writer whose connection sees no
\* observation yet; the caller keeps (dt, data).
IngestArray(dt, data, commit) ==
    /\ conn = "open"
    /\ pc = "idle"
    /\ pair = NoPair
    /\ txn.line_observation = <<>>
    /\ LET r == add_from_dict(txn, lines_cache, dt, data)
       IN  /\ txn' = r.db
           /\ lines_cache' = r.cache
           /\ store' = AfterCommit(commit, r)
           /\ last' = CallOn("add_from_dict", r, dt, data)
    /\ pair' = [dt |-> dt, none |-> FALSE, data |-> data]
    /\ UNCHANGED <<fk, tables, conn, tree, tmpdirs, pc, pos, yielded, count, printed,
                   answer>>

\* A later add_from_dict(dt, [], commit=True) on the same connection: it
\* writes nothing and commits what the transaction holds.
CommitLater ==
    /\ pair # NoPair
    /\ txn # store
    /\ AddFromDict(pair.dt, <<>>, TRUE)

NextArray ==
    \/ Enter
    \/ Exit
    \/ CreateTables
    \/ \E t \in Timestamps, d \in Arrays, c \in BOOLEAN : IngestArray(t, d, c)
    \/ CommitLater
    \/ \E f \in Filters : GetObservations(f[1], f[2], f[3], f[4])

SpecArray == Init /\ [][NextArray]_vars

----------------------------------------------------------------------------
(* extract_data statement by statement, inside walk_category: the          *)
(* temporary directory of `with tempfile.TemporaryDirectory() as tmpdir`.  *)

\* Variant: a temporary directory that is not deleted when the with block
\* is left
TemporaryDirectoryExit_Kept(dirs, d) == dirs

\* TemporaryDirectory.__exit__: the directory is deleted, however the with
\* block is left.
TemporaryDirectoryExit(dirs, d) == dirs \ {d}

\* The file walk_category is visiting, and what extract_data makes of it.
Visited == WalkOrder(tree)[pos]
Outcome == extract_data(Visited[4], tree[Visited])

\* extract_data is left by an exception, which leaves walk_category too.
ExtractRaise ==
    /\ pc' = "error"
    /\ last' = [NoCall EXCEPT !.op = "extract_data", !.err = Outcome.err]
    /\ tmpdirs' = TemporaryDirectoryExit(tmpdirs, pos)
    /\ UNCHANGED <<pair, yielded>>

\* extract_data returns, and walk_category yields the pair.
ExtractReturn ==
    /\ pc' = "body"
    /\ pair' = Pair(FileDatetime(Visited), Outcome)
    /\ yielded' = Append(yielded, pair')
    /\ tmpdirs' = TemporaryDirectoryExit(tmpdirs, pos)
    /\ UNCHANGED last

\* The generator is resumed: the loops are exhausted, or the next file is
\* reached and extract_data is called with its path.
WalkVisit ==
    /\ pc = "walk"
    /\ IF pos = Len(WalkOrder(tree))
       THEN pc' = "stop" /\ UNCHANGED pos
       ELSE pc' = "extract" /\ pos' = pos + 1
    /\ UNCHANGED <<dbvars, tree, tmpdirs, pair, yielded, count, printed,
                   answer>>

\* with tempfile.TemporaryDirectory() as tmpdir:
MakeTmpdir ==
    /\ pc = "extract"
    /\ tmpdirs' = tmpdirs \cup {pos}
    /\ pc' = "tmpdir"
    /\ UNCHANGED <<dbvars, tree, pos, pair, yielded, count, printed, answer>>

\* with tarfile.open(fpath) as tf: tf.extractall(tmpdir)
Untar ==
    /\ pc = "tmpdir"
    /\ IF Outcome.err = "ReadError"
       THEN ExtractRaise
       ELSE pc' = "untarred" /\ UNCHANGED <<last, tmpdirs, pair, yielded>>
    /\ UNCHANGED <<fk, tables, store, txn, conn, lines_cache, tree, pos,
                   count, printed, answer>>

\* if os.path.getsize(extracted) == 0: return None
GetSize ==
    /\ pc = "untarred"
    /\ IF Outcome.err = "FileNotFoundError" THEN ExtractRaise
       ELSE IF Outcome.err = "none" /\ Outcome.none THEN ExtractReturn
       ELSE pc' = "sized" /\ UNCHANGED <<last, tmpdirs, pair, yielded>>
    /\ UNCHANGED <<fk, tables, store, txn, conn, lines_cache, tree, pos,
                   count, printed, answer>>

\* with open(...) as jf: return json.load(jf)
JsonLoad ==
    /\ pc = "sized"
    /\ IF Outcome.err # "none" THEN ExtractRaise ELSE ExtractReturn
    /\ UNCHANGED <<fk, tables, store, txn, conn, lines_cache, tree, pos,
                   count, printed, answer>>

\* The archives of the trees: a zero-length file, a file that is not
\* JSON, an empty array, an array of one line.
ExtractBodies ==
    { Body("empty", <<>>), Body("badjson", <<>>), Body("json", <<>>),
      Body("json", <<Victoria>>) }

InitExtract ==
    /\ fk = FALSE
    /\ tables = FALSE
    /\ store = EmptyDb
    /\ txn = EmptyDb
    /\ conn = "closed"
    /\ lines_cache = EmptyCache
    /\ last = NoCall
    /\ tree \in Trees(IngestPaths, ExtractBodies)
    /\ tmpdirs = {}
    /\ pc = "walk"
    /\ pos = 0
    /\ pair = NoPair
    /\ yielded = <<>>
    /\ count = 0
    /\ printed = <<>>
    /\ answer = NoAnswer

NextExtract ==
    WalkVisit \/ MakeTmpdir \/ Untar \/ GetSize \/ JsonLoad \/ LoopBody

SpecExtract == InitExtract /\ [][NextExtract]_vars

----------------------------------------------------------------------------
(* Properties *)

\* Number of observation rows of db for the triple k.
TripleCount(db, k) ==
    Cardinality({ i \in 1..Len(db.line_observation) :
                    LET r == db.line_observation[i]
                    IN  <<r.timestamp, r.mode, r.line>> = k })

\* No (timestamp, mode, line) triple has two observation rows, in the
\* committed store or in the connection's view.
ObservationsUnique ==
    \A db \in {store, txn} : \A k \in Triples(db) : TripleCount(db, k) = 1

\* A call that asked for a triple the table held has raised IntegrityError.
DuplicateReported ==
    last.held => last.err = "IntegrityError"

\* C1: every (timestamp, mode, line) triple has at most one row in
\* line_observation after any calls of add_line_observation and
\* add_from_dict, and a call that asks again for a triple the table holds
\* raises IntegrityError.
C1_ObservationOncePerTriple ==
    /\ ObservationsUnique
    /\ DuplicateReported

\* C1 (witness): add_line_observation has raised IntegrityError for the
\* triple of the one row the table holds, written by this writer.
C1_Witness ==
    /\ last.op = "add_line_observation"
    /\ last.held
    /\ last.err = "IntegrityError"
    /\ Len(txn.line_observation) = 1
    /\ LineCached(lines_cache, txn.line_observation[1].mode,
                  txn.line_observation[1].line)

\* C2 (as claimed): when add_from_dict has raised IntegrityError for one
\* record of a snapshot, the ingestion goes on: the walk is resumed and every
\* line object of that snapshot has its observation in the connection's view.
C2_ConflictSkipsOneRecord ==
    (last.op = "add_from_dict" /\ last.err = "IntegrityError"
        /\ conn = "open")
    => /\ pc = "walk"
       /\ Asked(pair.dt, pair.data) \subseteq Triples(txn)

\* The pairs whose ingestion add_from_data has completed.
Completed ==
    IF last.op = "add_from_dict" /\ last.err # "none"
    THEN SubSeq(yielded, 1, Len(yielded) - 1)
    ELSE yielded

\* C3 (as claimed): when a run of create_database has ended, a count has
\* been printed and the committed store holds the observations of every
\* snapshot whose ingestion was completed.
C3_BatchNeverDropped ==
    pc \in {"done", "failed"}
    => /\ printed # <<>>
       /\ \A i \in 1..Len(Completed) :
             Asked(Completed[i].dt, Completed[i].data) \subseteq Triples(store)

\* Referential integrity of the contents db.
ReferentialIntegrity(db) ==
    /\ \A l \in Rows(db.line) : \E m \in Rows(db.mode) : m.name = l.mode
    /\ \A o \in Rows(db.line_observation) :
          \E l \in Rows(db.line) : l.mode = o.mode /\ l.line = o.line
    /\ \A s \in Rows(db.line_status) :
          \E o \in Rows(db.line_observation) : o.id = s.parent

\* C4 (as claimed): in every reachable state the committed store has
\* referential integrity: every line row has its mode row, every
\* observation row its line row, every status row its observation row.
C4_ReferentialIntegrity == ReferentialIntegrity(store)

ModeCount(db, mode) == CountRows(db.mode, [name |-> mode])
LineCount(db, mode, line) ==
    CountRows(db.line, [mode |-> mode, line |-> line])

\* No mode and no (mode, line) pair has two rows.
ReferenceDataUnique ==
    \A db \in {store, txn} :
        /\ \A r \in Rows(db.mode) : ModeCount(db, r.name) = 1
        /\ \A r \in Rows(db.line) : LineCount(db, r.mode, r.line) = 1

\* add_mode_line(mode, line) that returns for a pair the cache does not
\* hold leaves exactly one row for the pair, and exactly one for the mode
\* when the mode is new to the cache too; called again, while these rows
\* are there, it changes nothing and returns.
InsertedOnce(mode, line) ==
    /\ (~LineCached(lines_cache, mode, line) /\ last'.err = "none")
        => /\ LineCount(txn', mode, line) = 1
           /\ LineCached(lines_cache', mode, line)
           /\ ~ModeCached(lines_cache, mode) => ModeCount(txn', mode) = 1
    /\ (LineCached(lines_cache, mode, line)
           /\ LineCount(txn, mode, line) = 1 /\ ModeCount(txn, mode) = 1)
        => /\ last'.err = "none"
           /\ UNCHANGED <<txn, store, lines_cache>>

\* C5: a (mode, line) pair inserted twice or more by add_mode_line has
\* exactly one row in the line table and its mode exactly one row in the
\* mode table: the first insertion adds them, a repeated one is a no-op.
C5_ModeLineInsertedOnce ==
    /\ []ReferenceDataUnique
    /\ [][\A p \in ModeLinePairs :
            AddModeLine(p[1], p[2]) => InsertedOnce(p[1], p[2])]_vars

\* C5 (witness): add_mode_line has returned having added nothing to what
\* is committed, for a pair whose rows this writer had inserted.
C5_Witness ==
    /\ last.op = "add_mode_line"
    /\ last.err = "none"
    /\ conn = "open"
    /\ txn = store
    /\ store.line # <<>>
    /\ \A r \in Rows(store.line) : LineCached(lines_cache, r.mode, r.line)

\* C6 (as claimed): add_mode_line called on a writer whose cache is empty,
\* for a mode the store already holds, returns and adds no second row.
C6_FreshWriterToleratesStoredRows ==
    [][\A p \in ModeLinePairs :
         (AddModeLine(p[1], p[2]) /\ lines_cache = EmptyCache
              /\ ModeCount(txn, p[1]) = 1)
         => (last'.err = "none" /\ ModeCount(txn', p[1]) = 1)]_vars

\* C7 (as claimed): the walk is never left by an exception: every file
\* visited has yielded a pair, and the pair of an archive that cannot be
\* read is (timestamp, None).
C7_CorruptArchiveYieldsNone ==
    /\ pc # "error"
    /\ Len(yielded) = pos
    /\ \A i \in 1..Len(yielded) :
          LET f == WalkOrder(tree)[i]
          IN  ~tree[f].readable
                  => yielded[i] = [dt |-> FileDatetime(f), none |-> TRUE,
                                   data |-> <<>>]

\* The next file walk_category visits wraps a zero-length file.
NextIsEmpty ==
    /\ pos < Len(WalkOrder(tree))
    /\ tree[WalkOrder(tree)[pos + 1]].readable
    /\ tree[WalkOrder(tree)[pos + 1]].kind = "empty"

\* C8: for an archive whose extracted file is zero-length walk_category
\* yields (timestamp, None); add_from_data skips that pair, changing no
\* table, nor the cache, nor its count, and resumes the walk.
C8_EmptyArchiveSkipped ==
    [][/\ (WalkNext /\ NextIsEmpty)
            => /\ pc' = "body"
               /\ pair' = [dt |-> FileDatetime(WalkOrder(tree)[pos + 1]),
                           none |-> TRUE, data |-> <<>>]
               /\ yielded' = Append(yielded, pair')
       /\ (AddFromDataBody /\ pair.none)
            => /\ pc' = "walk"
               /\ UNCHANGED <<store, txn, lines_cache, count>>]_vars

\* C8 (witness): a pair (timestamp, None) was yielded for a zero-length
\* file and skipped, and the snapshot of a later file has been ingested.
C8_Witness ==
    /\ Len(yielded) = 2
    /\ yielded[1].none
    /\ tree[WalkOrder(tree)[1]].kind = "empty"
    /\ ~yielded[2].none
    /\ pc = "walk"
    /\ Asked(yielded[2].dt, yielded[2].data) \subseteq Triples(txn)
    /\ txn.line_observation # <<>>

\* C9: the pairs walk_category yields are in ascending order of timestamp.
C9_WalkAscending ==
    \A i, j \in 1..Len(yielded) :
        i < j => DtLeq(yielded[i].dt, yielded[j].dt)

\* C9 (witness): two pairs were yielded, the first of an earlier year and
\* a later month, day and time than the second.
C9_Witness ==
    /\ Len(yielded) = 2
    /\ yielded[1].dt.year < yielded[2].dt.year
    /\ yielded[1].dt.month > yielded[2].dt.month
    /\ yielded[1].dt.day > yielded[2].dt.day
    /\ yielded[1].dt.hour > yielded[2].dt.hour

\* The observation rows of db that have a status row with description d.
ObservationsWith(db, d) ==
    { o \in Rows(db.line_observation) :
        \E s \in Rows(db.line_status) :
            s.parent = o.id /\ s.description = d }

\* C10 (as claimed): with statuses={d} and no other filter,
\* get_observations returns the observations that have a status row with
\* description d, each in one row, and count_observations their number.
C10_StatusFilterExactOnce ==
    [][\A d \in Descriptions :
         /\ GetObservations(<<>>, <<>>, <<>>, << {d} >>)
              => /\ { r.id : r \in answer'.rows }
                       = { o.id : o \in ObservationsWith(store, d) }
                 /\ \A o \in ObservationsWith(store, d) :
                       Cardinality({ r \in answer'.rows : r.id = o.id }) = 1
         /\ CountObservations(<<>>, <<>>, <<>>, << {d} >>)
              => answer'.count = Cardinality(ObservationsWith(store, d))]_vars

\* The number of status entries of the line objects of a snapshot array.
RECURSIVE SumStatuses(_)
SumStatuses(data) ==
    IF data = <<>> THEN 0
    ELSE Len(Head(data).lineStatuses) + SumStatuses(Tail(data))

\* add_from_dict has returned for the array the caller keeps, and the
\* committed store holds what it wrote: a row per line object and a row
\* per status entry.
RoundTripDone ==
    /\ pair # NoPair
    /\ last.op = "add_from_dict"
    /\ last.err = "none"
    /\ store = txn
    /\ Len(store.line_observation) = Len(pair.data)
    /\ Len(store.line_status) = SumStatuses(pair.data)

\* The rows of an answer that belong to the observation of a line object.
RowsOf(rows, dt, line) ==
    { r \in rows : r.timestamp = dt /\ r.mode = line.modeName
                       /\ r.line = line.name }

\* C11 (as claimed): get_observations with no filter, made after
\* add_from_dict has ingested an array into an empty store, returns one
\* observation for every line object of the array, those with an empty
\* lineStatuses too, with as many status rows as the object has entries.
C11_RoundTrip ==
    [][(GetObservations(<<>>, <<>>, <<>>, <<>>) /\ RoundTripDone)
         => \A i \in 1..Len(pair.data) :
               LET mine == RowsOf(answer'.rows, pair.dt, pair.data[i])
               IN  /\ Cardinality({ r.id : r \in mine }) = 1
                   /\ Cardinality({ r.id_1 : r \in mine })
                        = Len(pair.data[i].lineStatuses)]_vars

\* C12: for the same filters and the same store, count_observations
\* returns the number of rows that get_observations returns.
C12_CountEqualsRows ==
    \A f \in Filters :
        count_observations(store, f[1], f[2], f[3], f[4])
            = Cardinality(get_observations(store, f[1], f[2], f[3], f[4]))

\* C12 (witness): count_observations has counted the two status rows of
\* the one observation of the store.
C12_Witness ==
    /\ answer.op = "count_observations"
    /\ answer.count = 2
    /\ Len(store.line_observation) = 1
    /\ Len(store.line_status) = 2

\* The rows of the join of db that the filters match, the date range
\* being tested with DateRange.__contains__.
Matching(db, date_range, modes, lines, statuses) ==
    { JoinedRow(o, s) :
        <<o, s>> \in { os \in Rows(db.line_observation)
                                  \X Rows(db.line_status) :
            /\ os[1].id = os[2].parent
            /\ date_range = <<>>
                 \/ InDateRange(date_range[1], os[1].timestamp)
            /\ modes = <<>> \/ os[1].mode \in modes[1]
            /\ lines = <<>> \/ os[1].line \in lines[1]
            /\ statuses = <<>> \/ os[2].description \in statuses[1] } }

\* C13: a query returns the rows of the join whose timestamp is in
\* [start, end) when a date_range is given (start included, end excluded,
\* as DateRange.__contains__ tests it) and that satisfy each other filter
\* given; a filter that is not given constrains nothing.
C13_DateRangeHalfOpen ==
    \A f \in Filters :
        LET r == f[1]
            rows == get_observations(store, r, f[2], f[3], f[4])
        IN  /\ rows = Matching(store, r, f[2], f[3], f[4])
            /\ \A row \in rows :
                  r # <<>> => /\ DtLeq(r[1].start, row.timestamp)
                              /\ row.timestamp # r[1].end

\* C13 (witness): a query with the range [2023-01-04 23:00, 2023-01-05
\* 07:30) has returned a row of an observation made at its start.
C13_Witness ==
    /\ answer.op = "get_observations"
    /\ answer.date_range
         = << DateRange(Datetime(2023, 1, 4, 23, 0),
                        Datetime(2023, 1, 5, 7, 30)) >>
    /\ \E row \in answer.rows : row.timestamp = Datetime(2023, 1, 4, 23, 0)

\* The status rows of db whose parent is the observation row o.
StatusRowsOf(db, o) == { s \in Rows(db.line_status) : s.parent = o.id }

\* C14 (as claimed): every observation row of the committed store has all
\* the status rows of its line object, whatever write failed and whatever
\* was committed since.
C14_ObservationWithAllStatuses ==
    \A o \in Rows(store.line_observation) :
        \E i \in 1..Len(pair.data) :
            /\ pair.dt = o.timestamp
            /\ pair.data[i].modeName = o.mode
            /\ pair.data[i].name = o.line
            /\ Cardinality(StatusRowsOf(store, o))
                 = Len(pair.data[i].lineStatuses)

\* The array has no (modeName, name) twice and every status entry has its
\* description and its severity.
WellFormed(data) ==
    /\ \A i, j \in 1..Len(data) :
          (data[i].modeName = data[j].modeName /\ data[i].name = data[j].name)
              => i = j
    /\ \A i \in 1..Len(data) :
          \A k \in 1..Len(data[i].lineStatuses) :
              DOMAIN data[i].lineStatuses[k]
                  = {"statusSeverityDescription", "statusSeverity"}

\* The descriptions of the status entries of an array that are not in
\* STATUSES.
UnseenIn(data) ==
    UNION { { data[i].lineStatuses[k].statusSeverityDescription :
                k \in 1..Len(data[i].lineStatuses) } : i \in 1..Len(data) }
        \ STATUSES

\* C15 (as claimed): add_from_dict on a well-formed array that has status
\* descriptions outside STATUSES, made once the tables exist, returns, and
\* each of these descriptions has its line_status row.
C15_UnseenStatusTolerated ==
    [][\A t \in Timestamps, d \in Arrays, c \in BOOLEAN :
         (IngestArray(t, d, c) /\ tables /\ WellFormed(d)
              /\ UnseenIn(d) # {})
            => /\ last'.err = "none"
               /\ \A x \in UnseenIn(d) :
                     \E s \in Rows(txn'.line_status) : s.description = x]_vars

\* C16: the integer add_from_dict returns is the number of line_status
\* rows it wrote, the sum of the lengths of lineStatuses over the line
\* objects of its array (for an array of one line object, the integer
\* add_line_observation returns); add_from_data adds these up, and the
\* integer it returns is the number of line_status rows its run wrote.
C16_ReturnsStatusRowsWritten ==
    [][/\ (AddFromDataBody /\ ~pair.none /\ last'.err = "none")
            => /\ last'.ret = Len(txn'.line_status) - Len(txn.line_status)
               /\ last'.ret = SumStatuses(pair.data)
               /\ count' = count + last'.ret
       /\ AddFromDataCommit
            => count = Len(txn.line_status) - Len(store.line_status)]_vars

\* C16 (witness): a run has printed the count of the four status rows it
\* wrote for two line objects.
C16_Witness ==
    /\ pc = "done"
    /\ printed = <<4>>
    /\ Len(store.line_status) = 4
    /\ Len(store.line_observation) = 2

\* The pair the writer holds is the last one yielded, decoded in full from
\* the file the walker has just visited.
PairDecoded ==
    pc = "body"
    => /\ pos >= 1
       /\ yielded # <<>>
       /\ pair = yielded[Len(yielded)]
       /\ LET f == WalkOrder(tree)[pos]
          IN  pair = Pair(FileDatetime(f), extract_data(f[4], tree[f]))

\* When the walker is to visit the next file, the writer has made the
\* inserts of every pair yielded so far.
PairsWritten ==
    pc = "walk"
    => \A i \in 1..Len(yielded) :
          yielded[i].none
              \/ Asked(yielded[i].dt, yielded[i].data) \subseteq Triples(txn)

\* C17: walker and writer alternate: a pair is decoded in full before the
\* writer gets it, the walker visits no file while the writer holds a
\* pair, the writer writes nothing while the walker visits a file, and the
\* inserts of a pair are made before the next file is visited.
C17_WalkerWriterAlternate ==
    /\ [](PairDecoded /\ PairsWritten)
    /\ [][/\ WalkNext => (pc = "walk"
                            /\ UNCHANGED <<store, txn, lines_cache, count>>)
          /\ AddFromDataBody => (pc = "body" /\ pc' \in {"walk", "error"}
                                    /\ UNCHANGED <<pos, pair, yielded>>)]_vars

\* C17 (witness): two snapshots were yielded and written one after the
\* other, and the walker is to visit the next file.
C17_Witness ==
    /\ pc = "walk"
    /\ pos = 2
    /\ Len(yielded) = 2
    /\ ~yielded[1].none
    /\ ~yielded[2].none
    /\ yielded[1].data # <<>>
    /\ Asked(yielded[1].dt, yielded[1].data) \subseteq Triples(txn)
    /\ Asked(yielded[2].dt, yielded[2].data) \subseteq Triples(txn)
    /\ Len(txn.line_observation) >= 2

\* C18: a temporary directory exists only while extract_data is inside its
\* with block, one at a time; whenever control is outside extract_data
\* (the pair is yielded, the exception has left, the walk is over) none is
\* left, whether extract_data returned data, returned None or raised.
C18_TmpdirScoped ==
    /\ pc \in {"walk", "extract", "body", "error", "stop"} => tmpdirs = {}
    /\ pc \in {"tmpdir", "untarred", "sized"} => tmpdirs = {pos}

\* C18 (witness): extract_data has raised on the second archive, after it
\* returned for the first, and no temporary directory is left.
C18_Witness ==
    /\ pc = "error"
    /\ pos = 2
    /\ Len(yielded) = 1
    /\ last.op = "extract_data"
    /\ last.err \in {"ReadError", "JSONDecodeError"}
    /\ tmpdirs = {}

\* C19 (as claimed): while the writer has a connection, every mode that is
\* a key of _lines_cache has its row in the mode table, and every (mode,
\* line) the cache records has its row in the line table, as the
\* connection sees them.
C19_CacheSound ==
    conn = "open"
    => \A m \in ModeNames :
          /\ ModeCached(lines_cache, m) => ModeCount(txn, m) >= 1
          /\ \A l \in lines_cache[m] : LineCount(txn, m, l) >= 1

====
